---- MODULE Spec2Model ----
(***************************************************************************)
(* kiwi_rates: the BNZ scraping run (src/bnz/scraper.py, src/scraper.py),  *)
(* the history store and change detector (src/storage.py), the notifier    *)
(* (src/notifier.py) and the latest-state reducer and report generator     *)
(* (src/html_generator.py).                                                *)
(*                                                                         *)
(* Time is counted in half hours since an arbitrary epoch.  A rate is a    *)
(* float in the code; here it is the number of thousandths of a percent    *)
(* (4.49 is 4490).  A scraped_at string "YYYY-MM-DDTHH:MM:SS+HH:00" is the *)
(* record [local, off]: the wall-clock reading and the UTC offset that     *)
(* follows it in the string.                                               *)
(***************************************************************************)
EXTENDS Integers, Sequences, FiniteSets, TLC

\* ------------------------------------------------------------------ bounds
\* Longest feed (number of <rate> elements) a run may receive.
MaxSnap == 2
\* Last instant at which a run may take its timestamp.
MaxClock == 2
\* Longest pre-existing history drawn for the change-detector harness.
MaxHist == 2
\* Instant at which New Zealand daylight time ends (UTC+13 -> UTC+12).
DstEnd == 2
\* Instant from which the source reports a later lastupdated date.
BankUpdate == 1
\* Largest max_retries fetch_with_retry is called with.
MaxRetries == 3

\* ------------------------------------------------- constants of the program
\* UTC offsets of Pacific/Auckland, in half hours.
NZDT == 26
NZST == 24
\* One day, in half hours.
Day == 48

None == "None"
DataFile == "data/bnz_rates.json"

Products == {"Standard"}
Terms == {"1 year", "2 years"}
InterestTexts == {"4.49", "4.59", "n/a"}
BankDates == {"2025-12-18T00:00:00+13:00", "2025-12-19T00:00:00+13:00"}

\* ----------------------------------------------------------------- helpers
SeqsUpTo(S, n) == UNION {[1..k -> S] : k \in 0..n}

\* A Python dict with no entry, and d[k] = v.
EmptyDict == [x \in {} |-> 0]
DictSet(d, k, v) == [x \in DOMAIN d \cup {k} |-> IF x = k THEN v ELSE d[x]]

\* ------------------------------------------------------------- timestamps
\* ZoneInfo("Pacific/Auckland").utcoffset at instant t.
UtcOffset(t) == IF t < DstEnd THEN NZDT ELSE NZST

\* datetime.now(ZoneInfo("Pacific/Auckland")).isoformat() at instant t.
NowIso(t) == [local |-> t + UtcOffset(t), off |-> UtcOffset(t)]

\* datetime.fromisoformat(s), as the instant the aware datetime denotes.
FromIso(s) == s.local - s.off

\* A scraped_at string datetime.fromisoformat rejects ("INVALID DATE FORMAT"
\* in tests/test_html_generator.py), and the test fromisoformat applies.
InvalidDate == [local |-> -1, off |-> 0]
IsIsoFormat(s) == s.off \in {NZDT, NZST}

\* s1 < s2 on the ISO strings (str comparison): the wall-clock digits come
\* first, the "+12:00" / "+13:00" suffix last.  A string that starts with a
\* letter is greater than every string that starts with a digit.
StrLess(s1, s2) ==
    IF IsIsoFormat(s1) /\ IsIsoFormat(s2)
    THEN \/ s1.local < s2.local
         \/ s1.local = s2.local /\ s1.off < s2.off
    ELSE IsIsoFormat(s1) /\ ~IsIsoFormat(s2)

\* Mutant: the difference is taken the other way round.
DaysBetween_reversed(now, then) == (then - now) \div Day

\* (now - then).days : timedelta.days is the floor of the difference.
DaysBetween(now, then) == (now - then) \div Day

\* ------------------------------------------------------------------ parser
\* float(text.strip()) returns for these texts and raises ValueError for the others.
IsFloatText(text) == text \in {"4.49", "4.59"}

\* float(text.strip()), in thousandths.
ParseFloat(text) ==
    CASE text = "4.49" -> 4490
      [] text = "4.59" -> 4590

\* A <rate> element: each child is its text, or None when the child is missing
\* or empty.  The feeds drawn hold every complete element with a numeric
\* interest, and one element for each way of being unusable.
RateElems ==
    [label : Products, term : Terms, interest : {x \in InterestTexts : IsFloatText(x)}]
    \cup {[label |-> None, term |-> "1 year", interest |-> "4.49"],
          [label |-> "Standard", term |-> None, interest |-> "4.49"],
          [label |-> "Standard", term |-> "1 year", interest |-> None],
          [label |-> "Standard", term |-> "1 year", interest |-> "n/a"]}
Feeds == SeqsUpTo(RateElems, MaxSnap)

IsComplete(e) == e.label # None /\ e.term # None /\ e.interest # None

\* Some complete element carries an interest text float() rejects.
FloatRaises(feed) ==
    \E i \in DOMAIN feed : IsComplete(feed[i]) /\ ~IsFloatText(feed[i].interest)

RECURSIVE parse_rates_loop(_, _, _)
parse_rates_loop(feed, i, rates) ==
    IF i > Len(feed) THEN rates
    ELSE IF IsComplete(feed[i])
         THEN parse_rates_loop(feed, i + 1,
                  Append(rates, [product_name |-> feed[i].label,
                                 term |-> feed[i].term,
                                 rate_percentage |-> ParseFloat(feed[i].interest)]))
         ELSE parse_rates_loop(feed, i + 1, rates)

\* The list parse_rates builds before its emptiness check.
parse_rates(feed) == parse_rates_loop(feed, 1, <<>>)

\* ----------------------------------------------------------------- storage
\* key = (rate["product_name"], rate["term"])
KeyOf(rate) == <<rate.product_name, rate.term>>

\* for rate in rates: d[key] = rate["rate_percentage"]
RECURSIVE rates_map_loop(_, _, _)
rates_map_loop(rates, i, d) ==
    IF i > Len(rates) THEN d
    ELSE rates_map_loop(rates, i + 1, DictSet(d, KeyOf(rates[i]), rates[i].rate_percentage))

\* Mutant: the first entry of a key wins instead of the last.
Reverse(rates) == [i \in DOMAIN rates |-> rates[Len(rates) + 1 - i]]
latest_existing_first_wins(existing_rates) ==
    rates_map_loop(Reverse(existing_rates), 1, EmptyDict)

latest_existing(existing_rates) == rates_map_loop(existing_rates, 1, EmptyDict)

\* Mutant: a key already in the map keeps its first rate.
new_rates_map_first_wins(new_rates) == rates_map_loop(Reverse(new_rates), 1, EmptyDict)

new_rates_map(new_rates) == rates_map_loop(new_rates, 1, EmptyDict)

\* Mutant: only the keys of the snapshot are compared, so a removed key goes
\* unnoticed.
should_update_rates_ignores_removed(existing_rates, new_rates) ==
    IF Len(existing_rates) = 0
    THEN Len(new_rates) # 0
    ELSE \E i \in DOMAIN new_rates :
            \/ KeyOf(new_rates[i]) \notin DOMAIN latest_existing(existing_rates)
            \/ latest_existing(existing_rates)[KeyOf(new_rates[i])]
                   # new_rates_map(new_rates)[KeyOf(new_rates[i])]

should_update_rates(existing_rates, new_rates) ==
    IF Len(existing_rates) = 0
    THEN Len(new_rates) # 0
    ELSE latest_existing(existing_rates) # new_rates_map(new_rates)

RECURSIVE filter_changed_loop(_, _, _, _)
filter_changed_loop(latest, new_rates, i, changed_rates) ==
    IF i > Len(new_rates) THEN changed_rates
    ELSE LET rate == new_rates[i]
             key == KeyOf(rate)
         IN  IF key \notin DOMAIN latest \/ latest[key] # rate.rate_percentage
             THEN filter_changed_loop(latest, new_rates, i + 1, Append(changed_rates, rate))
             ELSE filter_changed_loop(latest, new_rates, i + 1, changed_rates)

\* Mutant: the changed entries are collected most recent first.
filter_changed_rates_reversed(existing_rates, new_rates) ==
    Reverse(filter_changed_loop(latest_existing(existing_rates), new_rates, 1, <<>>))

\* Mutant: every entry of the snapshot counts as changed.
filter_changed_rates_all(existing_rates, new_rates) == new_rates

filter_changed_rates(existing_rates, new_rates) ==
    filter_changed_loop(latest_existing(existing_rates), new_rates, 1, <<>>)

\* What load_rates returns when the file does not exist.
MissingFileData == [last_scraped |-> None, bank_last_updated |-> None, rates |-> <<>>]

\* The message of the json.JSONDecodeError json.load raises, as its parts.
JsonDecodeErrorMsg == <<"Expecting value", "line 1 column 1 (char 0)">>

\* ----------------------------------------------------------------- reducer
\* round(x, 2) of a difference of rates: the nearest hundredth, in thousandths
\* (a tie goes to the even hundredth).
Round2(x) ==
    LET q == x \div 10
        r == x % 10
    IN  IF r < 5 THEN 10 * q
        ELSE IF r > 5 THEN 10 * (q + 1)
        ELSE IF q % 2 = 0 THEN 10 * q ELSE 10 * (q + 1)

\* The keys of rates_by_product, in the order the dict received them.
RECURSIVE rates_by_product_keys(_, _, _)
rates_by_product_keys(rates, i, keys) ==
    IF i > Len(rates) THEN keys
    ELSE IF \E j \in DOMAIN keys : keys[j] = KeyOf(rates[i])
         THEN rates_by_product_keys(rates, i + 1, keys)
         ELSE rates_by_product_keys(rates, i + 1, Append(keys, KeyOf(rates[i])))

\* rates_by_product[key]: the entries of the key, in file order.
rates_by_product(rates, key) == SelectSeq(rates, LAMBDA r : KeyOf(r) = key)

\* sorted() is stable: x goes before the first element whose scraped_at string
\* is greater than its own.
RECURSIVE insert_sorted(_, _, _)
insert_sorted(sorted, x, i) ==
    IF i > Len(sorted) THEN Append(sorted, x)
    ELSE IF StrLess(x.scraped_at, sorted[i].scraped_at)
         THEN SubSeq(sorted, 1, i - 1) \o <<x>> \o SubSeq(sorted, i, Len(sorted))
         ELSE insert_sorted(sorted, x, i + 1)

RECURSIVE sorted_loop(_, _, _)
sorted_loop(rate_list, i, sorted) ==
    IF i > Len(rate_list) THEN sorted
    ELSE sorted_loop(rate_list, i + 1, insert_sorted(sorted, rate_list[i], 1))

\* sorted(rate_list, key=lambda r: r["scraped_at"])
sorted_rates(rate_list) == sorted_loop(rate_list, 1, <<>>)

\* Mutant: the date of the key's last observation instead of its first.
max_scraped_date(sorted) ==
    CHOOSE m \in {FromIso(sorted[i].scraped_at) : i \in DOMAIN sorted} :
        \A i \in DOMAIN sorted : m >= FromIso(sorted[i].scraped_at)

\* min(datetime.fromisoformat(r["scraped_at"]) for r in sorted_rates)
min_scraped_date(sorted) ==
    CHOOSE m \in {FromIso(sorted[i].scraped_at) : i \in DOMAIN sorted} :
        \A i \in DOMAIN sorted : m <= FromIso(sorted[i].scraped_at)

\* The body of the loop over rates_by_product.items(), read at instant now.
enriched_rate(rate_list, now) ==
    LET sorted == sorted_rates(rate_list)
        days_since_first_appearance == DaysBetween(now, min_scraped_date(sorted))
        latest == sorted[Len(sorted)]
        rate_change ==
            IF Len(sorted) >= 2
            THEN Round2(latest.rate_percentage - sorted[Len(sorted) - 1].rate_percentage)
            ELSE 0
        days_since_update == DaysBetween(now, FromIso(latest.scraped_at))
    IN  [product_name |-> latest.product_name,
         term |-> latest.term,
         rate_percentage |-> latest.rate_percentage,
         scraped_at |-> latest.scraped_at,
         rate_change |-> rate_change,
         is_recent_change |-> IF rate_change # 0 THEN days_since_update <= 14 ELSE FALSE,
         is_new_product |-> days_since_first_appearance < 30,
         days_since_first_appearance |-> days_since_first_appearance,
         days_since_update |-> days_since_update]

\* Mutant: one state for every observation instead of one for every key.
latest_of_every_entry(rates, now) ==
    [i \in DOMAIN rates |-> enriched_rate(rates_by_product(rates, KeyOf(rates[i])), now)]

\* extract_latest_rates on the parsed file contents.
latest_of(rates, now) ==
    LET keys == rates_by_product_keys(rates, 1, <<>>)
    IN  [i \in DOMAIN keys |-> enriched_rate(rates_by_product(rates, keys[i]), now)]

\* --------------------------------------------------------------- the state
VARIABLES
    file,              \* data/bnz_rates.json: [state, data]
    clock,             \* the current instant
    pc,                \* position of the scraping run
    bank_last_updated, \* scrape_bnz_rates locals ...
    new_rates,
    existing_data,
    now_iso,
    rates_changed,
    changed_rates,
    updated_data,
    error,             \* the exception the run raised: [type, msg]
    calls,             \* change-detector functions called directly, as the tests do
    latest_rates,      \* the last direct call of extract_latest_rates
    other_file,        \* data/anz_rates.json, a history no scraper here writes
    output_file,       \* docs/index.html: [exists, now, bank_data, most_recent_change]
    report,            \* generate_html locals of its last call
    notification,      \* notify_rate_changes: what the run's call did
    fetch,             \* fetch_with_retry: the call in progress
    other_run          \* a second scraping run on the same file

vars == <<file, clock, pc, bank_last_updated, new_rates, existing_data, now_iso,
          rates_changed, changed_rates, updated_data, error, calls, latest_rates,
          other_file, output_file, report, notification, fetch, other_run>>

NoData == [bank_last_updated |-> None, rates |-> <<>>]
NoStamp == [local |-> 0, off |-> 0]
NoError == [type |-> None, msg |-> <<>>]
AbsentFile == [state |-> "absent", data |-> NoData]
TruncatedFile == [state |-> "truncated", data |-> NoData]
JsonFile(data) == [state |-> "json", data |-> data]
NotCalled == [called |-> FALSE, raises |-> FALSE, rates |-> <<>>, value |-> <<>>]
NoOutput == [exists |-> FALSE, now |-> 0, bank_data |-> <<>>, most_recent_change |-> <<>>]
NoReport == [called |-> FALSE, raises |-> FALSE, now |-> 0, all_rates |-> <<>>,
             bank_data |-> <<>>, most_recent_change |-> <<>>]
NoTitle == [bank_name |-> None, count |-> 0, text |-> None]
NoNotification == [called |-> FALSE, topic |-> None, outcome |-> None,
                   title |-> NoTitle, body |-> <<>>]
NoFetch == [status |-> "none", max_retries |-> 0, backoff |-> 0, attempt |-> 0,
            gets |-> <<>>, sleeps |-> <<>>, last_exception |-> None, result |-> None]
NoOtherRun == [pc |-> "none"]

LocalsInit ==
    /\ bank_last_updated = None
    /\ new_rates = <<>>
    /\ existing_data = NoData
    /\ now_iso = NoStamp
    /\ rates_changed = FALSE
    /\ changed_rates = <<>>
    /\ updated_data = NoData
    /\ error = NoError

Init ==
    /\ file = AbsentFile
    /\ clock = 0
    /\ pc = "idle"
    /\ calls = {}
    /\ latest_rates = NotCalled
    /\ other_file = AbsentFile
    /\ output_file = NoOutput
    /\ report = NoReport
    /\ notification = NoNotification
    /\ fetch = NoFetch
    /\ other_run = NoOtherRun
    /\ LocalsInit

\* -------------------------------------------------------- the scraping run
Raise(type, msg) ==
    /\ pc' = "failed"
    /\ error' = [type |-> type, msg |-> msg]

\* A new process: main() calls scrape_bnz_rates(bnz_file) in a fresh frame, and
\* what an earlier process held in memory is gone.
Start ==
    /\ pc \in {"idle", "done", "failed"}
    /\ clock < MaxClock
    /\ pc' = "fetch_html"
    /\ bank_last_updated' = None
    /\ new_rates' = <<>>
    /\ existing_data' = NoData
    /\ now_iso' = NoStamp
    /\ rates_changed' = FALSE
    /\ changed_rates' = <<>>
    /\ updated_data' = NoData
    /\ error' = NoError
    /\ latest_rates' = NotCalled
    /\ report' = NoReport
    /\ notification' = NoNotification
    /\ UNCHANGED <<file, clock, calls, other_file, output_file,
                   fetch, other_run>>

\* html_response = fetch_with_retry(html_url, headers=html_headers)
FetchHtml ==
    /\ pc = "fetch_html"
    /\ \/ pc' = "extract_api_key" /\ UNCHANGED error
       \/ Raise("RequestException", <<"page">>)
    /\ UNCHANGED <<file, clock, bank_last_updated, new_rates, existing_data, now_iso,
                   rates_changed, changed_rates, updated_data, calls, latest_rates, other_file, output_file, report, notification,
                   fetch, other_run>>

\* api_key = extract_api_key(html_response.text)
ExtractApiKey ==
    /\ pc = "extract_api_key"
    /\ \/ pc' = "fetch_rates" /\ UNCHANGED error
       \/ Raise("ValueError", <<"API key not found in HTML">>)
    /\ UNCHANGED <<file, clock, bank_last_updated, new_rates, existing_data, now_iso,
                   rates_changed, changed_rates, updated_data, calls, latest_rates, other_file, output_file, report, notification,
                   fetch, other_run>>

\* Mutant: the history file is opened for writing before the feed is fetched.
FetchRatesAfterOpen ==
    /\ pc = "fetch_rates"
    /\ \/ pc' = "parse_last_updated" /\ UNCHANGED <<error, file>>
       \/ Raise("RequestException", <<"feed">>) /\ file' = TruncatedFile
    /\ UNCHANGED <<clock, bank_last_updated, new_rates, existing_data, now_iso,
                   rates_changed, changed_rates, updated_data, calls, latest_rates, other_file, output_file, report, notification,
                   fetch, other_run>>

\* rates_response = fetch_with_retry(rates_url, headers=headers)
FetchRates ==
    /\ pc = "fetch_rates"
    /\ \/ pc' = "parse_last_updated" /\ UNCHANGED error
       \/ Raise("RequestException", <<"feed">>)
    /\ UNCHANGED <<file, clock, bank_last_updated, new_rates, existing_data, now_iso,
                   rates_changed, changed_rates, updated_data, calls, latest_rates, other_file, output_file, report, notification,
                   fetch, other_run>>

\* The <lastupdated> date of the feed fetched at instant t, as
\* parse_last_updated(...).isoformat() gives it: the bank moves it once.
BankDateAt(t) ==
    IF t < BankUpdate THEN "2025-12-18T00:00:00+13:00" ELSE "2025-12-19T00:00:00+13:00"

\* bank_last_updated = parse_last_updated(rates_response.text)
ParseLastUpdated ==
    /\ pc = "parse_last_updated"
    /\ \/ /\ bank_last_updated' = BankDateAt(clock)
          /\ pc' = "parse_rates"
          /\ UNCHANGED error
       \/ /\ Raise("ValueError", <<"No lastupdated element found in XML">>)
          /\ UNCHANGED bank_last_updated
    /\ UNCHANGED <<file, clock, new_rates, existing_data, now_iso,
                   rates_changed, changed_rates, updated_data, calls, latest_rates, other_file, output_file, report, notification,
                   fetch, other_run>>

\* Mutant: a document without a complete rate entry gives the empty list.
parse_rates_result_allows_empty(feed) ==
    IF FloatRaises(feed)
    THEN [raises |-> TRUE, value |-> <<>>,
          exc |-> [type |-> "ValueError", msg |-> <<"could not convert string to float">>]]
    ELSE [raises |-> FALSE, value |-> parse_rates(feed), exc |-> NoError]

\* The value or the exception of parse_rates(xml_content).
parse_rates_result(feed) ==
    IF FloatRaises(feed)
    THEN [raises |-> TRUE, value |-> <<>>,
          exc |-> [type |-> "ValueError", msg |-> <<"could not convert string to float">>]]
    ELSE IF Len(parse_rates(feed)) = 0
    THEN [raises |-> TRUE, value |-> <<>>,
          exc |-> [type |-> "ValueError", msg |-> <<"No rates found in XML feed">>]]
    ELSE [raises |-> FALSE, value |-> parse_rates(feed), exc |-> NoError]

\* new_rates = parse_rates(rates_response.text); the body of the response is
\* drawn here, where it is first looked at.
ParseRates ==
    /\ pc = "parse_rates"
    /\ \E feed \in Feeds :
        LET r == parse_rates_result(feed)
        IN  IF r.raises
            THEN Raise(r.exc.type, r.exc.msg) /\ UNCHANGED new_rates
            ELSE new_rates' = r.value /\ pc' = "load_rates" /\ UNCHANGED error
    /\ UNCHANGED <<file, clock, bank_last_updated, existing_data, now_iso,
                   rates_changed, changed_rates, updated_data, calls, latest_rates,
                   other_file, output_file, report, notification,
                   fetch, other_run>>

\* The value or the exception of load_rates(file_path).
load_rates(f) ==
    IF f.state = "absent" THEN [raises |-> FALSE, value |-> MissingFileData, exc |-> NoError]
    ELSE IF f.state = "json" THEN [raises |-> FALSE, value |-> f.data, exc |-> NoError]
    ELSE [raises |-> TRUE, value |-> NoData,
          exc |-> [type |-> "JSONDecodeError", msg |-> JsonDecodeErrorMsg]]

\* existing_data = load_rates(data_file)
LoadRates ==
    /\ pc = "load_rates"
    /\ LET r == load_rates(file)
       IN  IF r.raises
           THEN Raise(r.exc.type, r.exc.msg) /\ UNCHANGED existing_data
           ELSE existing_data' = r.value /\ pc' = "compute" /\ UNCHANGED error
    /\ UNCHANGED <<file, clock, bank_last_updated, new_rates, now_iso,
                   rates_changed, changed_rates, updated_data, calls, latest_rates, other_file, output_file, report, notification,
                   fetch, other_run>>

\* rate["scraped_at"] = now_iso
Stamp(rate, t) ==
    [product_name |-> rate.product_name, term |-> rate.term,
     rate_percentage |-> rate.rate_percentage, scraped_at |-> t]

\* Mutant: every entry is stamped with a reading of the clock of its own.
StampAll_own_reading(rates, t) ==
    [i \in DOMAIN rates |-> Stamp(rates[i], [local |-> t.local + i - 1, off |-> t.off])]

\* for rate in changed_rates: rate["scraped_at"] = now_iso
StampAll(rates, t) == [i \in DOMAIN rates |-> Stamp(rates[i], t)]

\* The dicts of changed_rates are the dicts of new_rates: stamping the former
\* stamps the latter in place.
StampInPlace(existing_rates, rates, t) ==
    LET latest == latest_existing(existing_rates)
    IN  [i \in DOMAIN rates |->
            IF KeyOf(rates[i]) \notin DOMAIN latest
               \/ latest[KeyOf(rates[i])] # rates[i].rate_percentage
            THEN Stamp(rates[i], t) ELSE rates[i]]

\* Mutant: the changed rates are put in front of the existing ones.
updated_rates_prepended(existing_rates, changed) == changed \o existing_rates

\* updated_rates = existing_data["rates"] + changed_rates
updated_rates(existing_rates, changed) == existing_rates \o changed

\* now = datetime.now(...) ... updated_data = {...}: some time has passed since
\* the previous run took its timestamp.
ComputeUpdate ==
    /\ pc = "compute"
    /\ clock < MaxClock
    /\ clock' = clock + 1
    /\ now_iso' = NowIso(clock')
    /\ rates_changed' = should_update_rates(existing_data.rates, new_rates)
    /\ changed_rates' =
         IF rates_changed'
         THEN StampAll(filter_changed_rates(existing_data.rates, new_rates), now_iso')
         ELSE <<>>
    /\ new_rates' =
         IF rates_changed'
         THEN StampInPlace(existing_data.rates, new_rates, now_iso')
         ELSE new_rates
    /\ updated_data' =
         [bank_last_updated |-> bank_last_updated,
          rates |-> IF rates_changed'
                    THEN updated_rates(existing_data.rates, changed_rates')
                    ELSE existing_data.rates]
    /\ pc' = "save_rates"
    /\ UNCHANGED <<file, bank_last_updated, existing_data, error, calls, latest_rates, other_file, output_file, report, notification,
                   fetch, other_run>>

\* Mutant: the file is written only when the rates changed.
SaveRatesIfChanged ==
    /\ pc = "save_rates"
    /\ file' = IF rates_changed THEN JsonFile(updated_data) ELSE file
    /\ pc' = "saved"
    /\ UNCHANGED <<clock, bank_last_updated, new_rates, existing_data, now_iso,
                   rates_changed, changed_rates, updated_data, error, calls, latest_rates,
                   other_file, output_file, report, notification,
                   fetch, other_run>>

\* save_rates(data_file, updated_data): the whole file is rewritten.
SaveRates ==
    /\ pc = "save_rates"
    /\ file' = JsonFile(updated_data)
    /\ pc' = "saved"
    /\ UNCHANGED <<clock, bank_last_updated, new_rates, existing_data, now_iso,
                   rates_changed, changed_rates, updated_data, error, calls, latest_rates,
          other_file, output_file, report, notification,
                   fetch, other_run>>

\* save_rates interrupted after open(file_path, "w") has emptied the file and
\* before json.dump has written all of it.
SaveRatesInterrupted ==
    /\ pc = "save_rates"
    /\ file' = TruncatedFile
    /\ Raise("OSError", <<"write failed">>)
    /\ UNCHANGED <<clock, bank_last_updated, new_rates, existing_data, now_iso,
                   rates_changed, changed_rates, updated_data, calls, latest_rates, other_file, output_file, report, notification,
                   fetch, other_run>>

\* Mutant: main calls notify_rate_changes whatever the result says.
MainReturnAlwaysNotifies ==
    /\ pc = "saved"
    /\ pc' = "notify"
    /\ UNCHANGED <<file, clock, bank_last_updated, new_rates, existing_data, now_iso,
                   rates_changed, changed_rates, updated_data, error, calls, latest_rates,
                   other_file, output_file, report, notification,
                   fetch, other_run>>

\* Mutant: main notifies only when the result lists a changed rate.
MainReturnIfChangedRates ==
    /\ pc = "saved"
    /\ pc' = IF Len(changed_rates) > 0 THEN "notify" ELSE "done"
    /\ UNCHANGED <<file, clock, bank_last_updated, new_rates, existing_data, now_iso,
                   rates_changed, changed_rates, updated_data, error, calls, latest_rates,
                   other_file, output_file, report, notification,
                   fetch, other_run>>

\* scrape_bnz_rates returns to main, which prints the result and calls
\* notify_rate_changes if result["rates_changed"].
MainReturn ==
    /\ pc = "saved"
    /\ pc' = IF rates_changed THEN "notify" ELSE "done"
    /\ UNCHANGED <<file, clock, bank_last_updated, new_rates, existing_data, now_iso,
                   rates_changed, changed_rates, updated_data, error, calls, latest_rates,
                   other_file, output_file, report, notification,
                   fetch, other_run>>

\* ---------------------------------------------------------------- notifier
\* The values os.environ.get("NTFY_TOPIC", "") may have.
NtfyTopics == {"", "kiwi-rates"}

\* get_ntfy_topic() when the variable holds text.
get_ntfy_topic(text) == IF text = "" THEN None ELSE text

\* What requests.post(...) and response.raise_for_status() may do.
PostOutcomes == {"ok", "ConnectionError", "HTTPError"}

\* send_notification(topic, title, body) when the request ends as post.
send_notification(post) == post = "ok"

\* The lines format_notification appends, one per changed rate: the line of a
\* key the lookup holds reads "- product term: old% -> new%", that of any other
\* key "- product term: new% (new)".
RECURSIVE format_lines_loop(_, _, _, _)
format_lines_loop(latest, changed, i, lines) ==
    IF i > Len(changed) THEN lines
    ELSE LET rate == changed[i]
             key == KeyOf(rate)
         IN  format_lines_loop(latest, changed, i + 1,
                 Append(lines,
                     IF key \in DOMAIN latest
                     THEN [product_name |-> rate.product_name, term |-> rate.term,
                           old_rate |-> latest[key], arrow |-> "% -> ",
                           rate_percentage |-> rate.rate_percentage]
                     ELSE [product_name |-> rate.product_name, term |-> rate.term,
                           rate_percentage |-> rate.rate_percentage,
                           suffix |-> "% (new)"]))

\* Mutant: the old rate shown is that of the first prior observation of the key.
format_notification_first_prior(bank_name, changed, existing_rates) ==
    [title |-> [bank_name |-> bank_name, count |-> Len(changed),
                text |-> IF Len(changed) # 1 THEN "rates changed" ELSE "rate changed"],
     body |-> format_lines_loop(latest_existing_first_wins(existing_rates), changed, 1, <<>>)]

\* format_notification(bank_name, changed_rates, existing_rates): the title
\* "<bank_name>: <count> rate[s] changed" and the lines of the body.
format_notification(bank_name, changed, existing_rates) ==
    [title |-> [bank_name |-> bank_name, count |-> Len(changed),
                text |-> IF Len(changed) # 1 THEN "rates changed" ELSE "rate changed"],
     body |-> format_lines_loop(latest_existing(existing_rates), changed, 1, <<>>)]

\* The record of a notify_rate_changes call that found a topic.
Notified(topic, outcome, message) ==
    [called |-> TRUE, topic |-> topic, outcome |-> outcome,
     title |-> message.title, body |-> message.body]

\* The record of a notify_rate_changes call that found no topic.
NotSent == [called |-> TRUE, topic |-> None, outcome |-> "skipped",
            title |-> NoTitle, body |-> <<>>]

\* Mutant: a request that fails makes notify_rate_changes raise.
NotifyRateChangesRaises ==
    /\ pc = "notify"
    /\ \E text \in NtfyTopics, post \in PostOutcomes :
          LET topic == get_ntfy_topic(text)
              message == format_notification("BNZ", changed_rates, existing_data.rates)
          IN  IF topic = None
              THEN /\ notification' = NotSent
                   /\ pc' = "done"
                   /\ UNCHANGED error
              ELSE IF send_notification(post)
              THEN /\ notification' = Notified(topic, "sent", message)
                   /\ pc' = "done"
                   /\ UNCHANGED error
              ELSE /\ notification' = Notified(topic, "failed", message)
                   /\ Raise(post, <<"notification">>)
    /\ UNCHANGED <<file, clock, bank_last_updated, new_rates, existing_data, now_iso,
                   rates_changed, changed_rates, updated_data, calls, latest_rates,
                   other_file, output_file, report,
                   fetch, other_run>>

\* notify_rate_changes(bank_name="BNZ", ...): nothing without a topic; else the
\* message is formatted and sent, and a failed request only prints a warning.
NotifyRateChanges ==
    /\ pc = "notify"
    /\ \E text \in NtfyTopics, post \in PostOutcomes :
          LET topic == get_ntfy_topic(text)
              message == format_notification("BNZ", changed_rates, existing_data.rates)
          IN  notification' =
                  IF topic = None
                  THEN NotSent
                  ELSE Notified(topic,
                                IF send_notification(post) THEN "sent" ELSE "failed",
                                message)
    /\ pc' = "done"
    /\ UNCHANGED <<file, clock, bank_last_updated, new_rates, existing_data, now_iso,
                   rates_changed, changed_rates, updated_data, error, calls, latest_rates,
                   other_file, output_file, report,
                   fetch, other_run>>

\* ----------------------------------------------------------- the read path
\* extract_latest_rates(data_file) at instant now: open() and json.load raise
\* on a missing or unparsable file, and datetime.fromisoformat, applied to every
\* observation of every key, raises on a scraped_at it cannot parse.
extract_latest_rates(f, now) ==
    IF f.state # "json"
    THEN [called |-> TRUE, raises |-> TRUE, rates |-> <<>>, value |-> <<>>]
    ELSE IF \E i \in DOMAIN f.data.rates : ~IsIsoFormat(f.data.rates[i].scraped_at)
    THEN [called |-> TRUE, raises |-> TRUE, rates |-> f.data.rates, value |-> <<>>]
    ELSE IF Len(f.data.rates) = 0
    THEN [called |-> TRUE, raises |-> FALSE, rates |-> <<>>, value |-> <<>>]
    ELSE [called |-> TRUE, raises |-> FALSE, rates |-> f.data.rates,
          value |-> latest_of(f.data.rates, now)]

\* The strings of the model in the order Python's str comparison gives them.
StrOrder == <<"1 year", "2 years", "ANZ", "BNZ", "Standard">>
StrRank(x) == CHOOSE i \in DOMAIN StrOrder : StrOrder[i] = x

\* (r1["product_name"], r1["term"]) < (r2["product_name"], r2["term"])
ProductTermLess(r1, r2) ==
    \/ StrRank(r1.product_name) < StrRank(r2.product_name)
    \/ r1.product_name = r2.product_name /\ StrRank(r1.term) < StrRank(r2.term)

RECURSIVE insert_by_product_term(_, _, _)
insert_by_product_term(sorted, x, i) ==
    IF i > Len(sorted) THEN Append(sorted, x)
    ELSE IF ProductTermLess(x, sorted[i])
         THEN SubSeq(sorted, 1, i - 1) \o <<x>> \o SubSeq(sorted, i, Len(sorted))
         ELSE insert_by_product_term(sorted, x, i + 1)

RECURSIVE sorted_by_product_term_loop(_, _, _)
sorted_by_product_term_loop(rates, i, sorted) ==
    IF i > Len(rates) THEN sorted
    ELSE sorted_by_product_term_loop(rates, i + 1,
                                     insert_by_product_term(sorted, rates[i], 1))

\* Mutant: the states are left in the order the reducer returned them.
sorted_by_product_term_unsorted(rates) == rates

\* sorted(latest_rates, key=lambda r: (r["product_name"], r["term"]))
sorted_by_product_term(rates) == sorted_by_product_term_loop(rates, 1, <<>>)

\* max(changed_rates, key=lambda r: r["scraped_at"]): the first of the elements
\* no other exceeds, by str comparison.
max_by_scraped_at(changed) ==
    changed[CHOOSE i \in DOMAIN changed :
               /\ \A j \in DOMAIN changed : ~StrLess(changed[i].scraped_at, changed[j].scraped_at)
               /\ \A j \in 1..(i - 1) : StrLess(changed[j].scraped_at, changed[i].scraped_at)]

\* strftime("%Y-%m-%d") of the parsed timestamp: the day of its wall-clock reading.
DateOf(s) == s.local \div Day

\* get_most_recent_rate_change(rates) at instant now: None (the empty tuple
\* here) or (date, days_since).
get_most_recent_rate_change(rates, now) ==
    LET changed == SelectSeq(rates, LAMBDA r : r.rate_change # 0)
    IN  IF Len(rates) = 0 \/ Len(changed) = 0
        THEN [raises |-> FALSE, value |-> <<>>]
        ELSE LET most_recent == max_by_scraped_at(changed)
             IN  IF ~IsIsoFormat(most_recent.scraped_at)
                 THEN [raises |-> TRUE, value |-> <<>>]
                 ELSE [raises |-> FALSE,
                       value |-> <<DateOf(most_recent.scraped_at),
                                   DaysBetween(now, FromIso(most_recent.scraped_at))>>]

\* generate_html_content parses the scraped_at of every row it renders.
generate_html_content_raises(bank_data) ==
    \E b \in DOMAIN bank_data : \E i \in DOMAIN bank_data[b].rates :
        ~IsIsoFormat(bank_data[b].rates[i].scraped_at)

\* sorted(data_dir.glob("*_rates.json")) with the bank name of each file.
rate_files(anz, bnz) ==
    SelectSeq(<<[bank_name |-> "ANZ", f |-> anz], [bank_name |-> "BNZ", f |-> bnz]>>,
              LAMBDA x : x.f.state # "absent")

\* The loop of generate_html over rate_files, from file i on.
RECURSIVE generate_html_loop(_, _, _, _, _)
generate_html_loop(files, i, now, bank_data, all_rates) ==
    IF i > Len(files)
    THEN [raises |-> FALSE, bank_data |-> bank_data, all_rates |-> all_rates]
    ELSE LET latest == extract_latest_rates(files[i].f, now)
         IN  IF latest.raises
             THEN [raises |-> TRUE, bank_data |-> bank_data, all_rates |-> all_rates]
             ELSE IF Len(latest.value) = 0
             THEN generate_html_loop(files, i + 1, now, bank_data, all_rates)
             ELSE generate_html_loop(files, i + 1, now,
                      Append(bank_data, [bank_name |-> files[i].bank_name,
                                         rates |-> sorted_by_product_term(latest.value)]),
                      all_rates \o latest.value)

\* generate_html(data_dir, output_file) at instant now, up to the write.
generate_html(files, now) ==
    LET loop == generate_html_loop(files, 1, now, <<>>, <<>>)
        most_recent_change == get_most_recent_rate_change(loop.all_rates, now)
    IN  IF loop.raises
        THEN [called |-> TRUE, raises |-> TRUE, now |-> now, all_rates |-> loop.all_rates,
              bank_data |-> loop.bank_data, most_recent_change |-> <<>>]
        ELSE [called |-> TRUE,
              raises |-> most_recent_change.raises \/ generate_html_content_raises(loop.bank_data),
              now |-> now, all_rates |-> loop.all_rates, bank_data |-> loop.bank_data,
              most_recent_change |-> most_recent_change.value]

RECURSIVE insert_by_bank_name(_, _, _)
insert_by_bank_name(sorted, x, i) ==
    IF i > Len(sorted) THEN Append(sorted, x)
    ELSE IF StrRank(x.bank_name) < StrRank(sorted[i].bank_name)
         THEN SubSeq(sorted, 1, i - 1) \o <<x>> \o SubSeq(sorted, i, Len(sorted))
         ELSE insert_by_bank_name(sorted, x, i + 1)

RECURSIVE sorted_bank_items_loop(_, _, _)
sorted_bank_items_loop(bank_data, i, sorted) ==
    IF i > Len(bank_data) THEN sorted
    ELSE sorted_bank_items_loop(bank_data, i + 1,
                                insert_by_bank_name(sorted, bank_data[i], 1))

\* for bank_name, bank_info in sorted(bank_data.items()): the sections of the
\* page, in the order generate_html_content writes them.
sorted_bank_items(bank_data) == sorted_bank_items_loop(bank_data, 1, <<>>)

\* Mutant: the report is written before the histories are reduced.
GenerateHtmlWritesFirst ==
    /\ pc \in {"idle", "done", "failed", "report"}
    /\ report' = generate_html(rate_files(other_file, file), clock)
    /\ output_file' = [exists |-> TRUE, now |-> clock, bank_data |-> sorted_bank_items(report'.bank_data),
                       most_recent_change |-> report'.most_recent_change]
    /\ UNCHANGED <<file, clock, pc, bank_last_updated, new_rates, existing_data, now_iso,
                   rates_changed, changed_rates, updated_data, error, calls,
                   latest_rates, other_file, notification,
                   fetch, other_run>>

\* html_generator.main: generate_html(data_dir, output_file) between two
\* scraping runs; output_file.write_text(html) is its last statement.
GenerateHtml ==
    /\ pc \in {"idle", "done", "failed", "report"}
    /\ report' = generate_html(rate_files(other_file, file), clock)
    /\ output_file' =
         IF report'.raises THEN output_file
         ELSE [exists |-> TRUE, now |-> clock, bank_data |-> sorted_bank_items(report'.bank_data),
               most_recent_change |-> report'.most_recent_change]
    /\ UNCHANGED <<file, clock, pc, bank_last_updated, new_rates, existing_data, now_iso,
                   rates_changed, changed_rates, updated_data, error, calls,
                   latest_rates, other_file, notification,
                   fetch, other_run>>

\* extract_latest_rates called on the history between two scraping runs.
ExtractLatestRates ==
    /\ pc \in {"idle", "done", "failed", "report"}
    /\ latest_rates' = extract_latest_rates(file, clock)
    /\ UNCHANGED <<file, clock, pc, bank_last_updated, new_rates, existing_data, now_iso,
                   rates_changed, changed_rates, updated_data, error, calls,
                   other_file, output_file, report, notification,
                   fetch, other_run>>

Next ==
    \/ Start
    \/ FetchHtml
    \/ ExtractApiKey
    \/ FetchRates
    \/ ParseLastUpdated
    \/ ParseRates
    \/ LoadRates
    \/ ComputeUpdate
    \/ SaveRates
    \/ SaveRatesInterrupted
    \/ MainReturn
    \/ NotifyRateChanges
    \/ ExtractLatestRates

Spec == Init /\ [][Next]_vars

\* ------------------------------------------- the change detector on its own
\* should_update_rates and filter_changed_rates called on an arbitrary history
\* and snapshot (tests/test_storage.py).
RateValues == {ParseFloat(t) : t \in {x \in InterestTexts : IsFloatText(x)}}
SnapshotEntries == [product_name : Products, term : Terms, rate_percentage : RateValues]
HistoryEntries == [product_name : Products, term : Terms, rate_percentage : RateValues,
                   scraped_at : {NowIso(0)}]

InitDetect ==
    /\ file = AbsentFile
    /\ clock = 0
    /\ pc = "unit"
    /\ calls = {}
    /\ latest_rates = NotCalled
    /\ other_file = AbsentFile
    /\ output_file = NoOutput
    /\ report = NoReport
    /\ notification = NoNotification
    /\ fetch = NoFetch
    /\ other_run = NoOtherRun
    /\ bank_last_updated = None
    /\ \E h \in SeqsUpTo(HistoryEntries, MaxHist) :
          existing_data = [bank_last_updated |-> None, rates |-> h]
    /\ new_rates \in SeqsUpTo(SnapshotEntries, MaxSnap)
    /\ now_iso = NoStamp
    /\ rates_changed = FALSE
    /\ changed_rates = <<>>
    /\ updated_data = NoData
    /\ error = NoError

CallShouldUpdate ==
    /\ pc = "unit"
    /\ rates_changed' = should_update_rates(existing_data.rates, new_rates)
    /\ calls' = calls \cup {"should_update_rates"}
    /\ UNCHANGED <<file, clock, pc, bank_last_updated, new_rates, existing_data, now_iso,
                   changed_rates, updated_data, error, latest_rates,
                   other_file, output_file, report, notification,
                   fetch, other_run>>

CallFilterChanged ==
    /\ pc = "unit"
    /\ changed_rates' = filter_changed_rates(existing_data.rates, new_rates)
    /\ calls' = calls \cup {"filter_changed_rates"}
    /\ UNCHANGED <<file, clock, pc, bank_last_updated, new_rates, existing_data, now_iso,
                   rates_changed, updated_data, error, latest_rates,
                   other_file, output_file, report, notification,
                   fetch, other_run>>

NextDetect ==
    \/ CallShouldUpdate
    \/ CallFilterChanged

SpecDetect == InitDetect /\ [][NextDetect]_vars

\* ------------------------------------------------- the reducer on its own
\* extract_latest_rates and generate_html called on histories written by earlier
\* runs, some time after the last of them (tests/test_html_generator.py).
ReduceStamps == {NowIso(t) : t \in 0..MaxClock} \cup {InvalidDate}
ReduceEntries == [product_name : Products, term : Terms, rate_percentage : RateValues,
                  scraped_at : ReduceStamps]

\* The timestamps a history holds were taken one run after the other.
InRunOrder(h) ==
    \A i, j \in DOMAIN h :
        (i < j /\ IsIsoFormat(h[i].scraped_at) /\ IsIsoFormat(h[j].scraped_at))
            => FromIso(h[i].scraped_at) <= FromIso(h[j].scraped_at)

ReduceHistories == {h \in SeqsUpTo(ReduceEntries, MaxHist) : InRunOrder(h)}

\* The instants the report is generated at: right after the last run, and
\* around 14, 15 and 30 days after the first.
ReduceNows == {MaxClock} \cup {d * Day + e : d \in {14, 15, 30}, e \in {0, 1}}

\* The history of a second source: missing, empty, one observation, a rate
\* changed by the last run, or a timestamp that cannot be parsed.
OtherHistories ==
    LET obs(rate, s) == [product_name |-> "Standard", term |-> "1 year",
                         rate_percentage |-> rate, scraped_at |-> s]
    IN  {<<>>,
         <<obs(4490, NowIso(0))>>,
         <<obs(4490, NowIso(0)), obs(4590, NowIso(MaxClock))>>,
         <<obs(4490, InvalidDate)>>}
OtherFiles ==
    {AbsentFile} \cup {JsonFile([bank_last_updated |-> None, rates |-> h]) : h \in OtherHistories}

\* The report left by an earlier generation, when no source had data yet.
OldOutput == [exists |-> TRUE, now |-> 0, bank_data |-> <<>>, most_recent_change |-> <<>>]

InitReduce ==
    /\ pc = "report"
    /\ \E h \in ReduceHistories : file = JsonFile([bank_last_updated |-> None, rates |-> h])
    /\ other_file \in OtherFiles
    /\ clock \in ReduceNows
    /\ calls = {}
    /\ latest_rates = NotCalled
    /\ output_file \in {NoOutput, OldOutput}
    /\ report = NoReport
    /\ notification = NoNotification
    /\ fetch = NoFetch
    /\ other_run = NoOtherRun
    /\ LocalsInit

NextReduce ==
    \/ ExtractLatestRates
    \/ GenerateHtml

SpecReduce == InitReduce /\ [][NextReduce]_vars

\* ------------------------------------------------ fetch_with_retry on its own
\* fetch_with_retry(url, max_retries=..., backoff=...) with requests.get and
\* time.sleep observed, as tests/test_http.py does.
Backoffs == {1, 2}

\* What requests.get(...) followed by response.raise_for_status() may do: give
\* the response, or raise a requests.RequestException.
GetOutcomes == {"ok", "ConnectionError", "Timeout", "HTTPError"}

RECURSIVE Pow2(_)
Pow2(n) == IF n = 0 THEN 1 ELSE 2 * Pow2(n - 1)

\* Mutant: the sleep is taken after the last attempt as well.
sleeps_after_failure_always(f) == Append(f.sleeps, f.backoff * Pow2(f.attempt))

\* if attempt < max_retries - 1: time.sleep(backoff * (2 ** attempt))
sleeps_after_failure(f) ==
    IF f.attempt < f.max_retries - 1
    THEN Append(f.sleeps, f.backoff * Pow2(f.attempt))
    ELSE f.sleeps

InitFetch ==
    /\ pc = "fetch"
    /\ \E n \in 1..MaxRetries, b \in Backoffs :
          fetch = [status |-> "running", max_retries |-> n, backoff |-> b, attempt |-> 0,
                   gets |-> <<>>, sleeps |-> <<>>, last_exception |-> None, result |-> None]
    /\ file = AbsentFile
    /\ clock = 0
    /\ calls = {}
    /\ latest_rates = NotCalled
    /\ other_file = AbsentFile
    /\ output_file = NoOutput
    /\ report = NoReport
    /\ notification = NoNotification
    /\ other_run = NoOtherRun
    /\ LocalsInit

\* One iteration of "for attempt in range(max_retries)".
FetchAttempt ==
    /\ pc = "fetch"
    /\ fetch.status = "running"
    /\ fetch.attempt < fetch.max_retries
    /\ \E get \in GetOutcomes :
          fetch' =
              IF get = "ok"
              THEN [fetch EXCEPT !.status = "returned",
                                 !.gets = Append(@, get),
                                 !.result = <<"response", fetch.attempt>>]
              ELSE [fetch EXCEPT !.gets = Append(@, get),
                                 !.last_exception = <<get, fetch.attempt>>,
                                 !.sleeps = sleeps_after_failure(fetch),
                                 !.attempt = @ + 1]
    /\ UNCHANGED <<file, clock, pc, bank_last_updated, new_rates, existing_data, now_iso,
                   rates_changed, changed_rates, updated_data, error, calls, latest_rates,
                   other_file, output_file, report, notification, other_run>>

\* raise last_exception, once the loop is exhausted.
FetchRaise ==
    /\ pc = "fetch"
    /\ fetch.status = "running"
    /\ fetch.attempt = fetch.max_retries
    /\ fetch' = [fetch EXCEPT !.status = "raised", !.result = fetch.last_exception]
    /\ UNCHANGED <<file, clock, pc, bank_last_updated, new_rates, existing_data, now_iso,
                   rates_changed, changed_rates, updated_data, error, calls, latest_rates,
                   other_file, output_file, report, notification, other_run>>

NextFetch ==
    \/ FetchAttempt
    \/ FetchRaise

SpecFetch == InitFetch /\ [][NextFetch]_vars

\* ------------------------------------------ two runs on one history file
\* The main run and a second process of the same program work on the same
\* data file; each has parsed its snapshot and is about to load the history.
\* The steps of either process interleave freely: nothing locks the file.
RaceHistories == SeqsUpTo(HistoryEntries, 1)
RaceFiles ==
    {AbsentFile}
        \cup {JsonFile([bank_last_updated |-> BankDateAt(0), rates |-> h]) : h \in RaceHistories}
RaceSnapshots == SeqsUpTo(SnapshotEntries, MaxSnap) \ {<<>>}

\* The frame of the second process at the call of load_rates.
OtherRunAt(snapshot) ==
    [pc |-> "load_rates", bank_last_updated |-> BankDateAt(0), new_rates |-> snapshot,
     existing_data |-> NoData, now_iso |-> NoStamp, rates_changed |-> FALSE,
     changed_rates |-> <<>>, updated_data |-> NoData, error |-> NoError]

InitRace ==
    /\ file \in RaceFiles
    /\ clock = 0
    /\ pc = "load_rates"
    /\ calls = {}
    /\ latest_rates = NotCalled
    /\ other_file = AbsentFile
    /\ output_file = NoOutput
    /\ report = NoReport
    /\ notification = NoNotification
    /\ fetch = NoFetch
    /\ bank_last_updated = BankDateAt(0)
    /\ new_rates \in RaceSnapshots
    /\ \E snapshot \in RaceSnapshots : other_run = OtherRunAt(snapshot)
    /\ existing_data = NoData
    /\ now_iso = NoStamp
    /\ rates_changed = FALSE
    /\ changed_rates = <<>>
    /\ updated_data = NoData
    /\ error = NoError

\* The second process: existing_data = load_rates(data_file)
OtherLoadRates ==
    /\ other_run.pc = "load_rates"
    /\ LET r == load_rates(file)
       IN  other_run' =
               IF r.raises
               THEN [other_run EXCEPT !.pc = "failed", !.error = r.exc]
               ELSE [other_run EXCEPT !.pc = "compute", !.existing_data = r.value]
    /\ UNCHANGED <<file, clock, pc, bank_last_updated, new_rates, existing_data, now_iso,
                   rates_changed, changed_rates, updated_data, error, calls, latest_rates,
                   other_file, output_file, report, notification, fetch>>

\* The second process: now_iso, should_update_rates, filter_changed_rates, the
\* stamping and updated_data, as ComputeUpdate.
OtherComputeUpdate ==
    /\ other_run.pc = "compute"
    /\ clock < MaxClock
    /\ clock' = clock + 1
    /\ LET existing_rates == other_run.existing_data.rates
           changed == should_update_rates(existing_rates, other_run.new_rates)
           stamped == IF changed
                      THEN StampAll(filter_changed_rates(existing_rates, other_run.new_rates),
                                    NowIso(clock'))
                      ELSE <<>>
       IN  other_run' =
               [other_run EXCEPT
                   !.pc = "save_rates",
                   !.now_iso = NowIso(clock'),
                   !.rates_changed = changed,
                   !.changed_rates = stamped,
                   !.new_rates = IF changed
                                 THEN StampInPlace(existing_rates, other_run.new_rates,
                                                   NowIso(clock'))
                                 ELSE other_run.new_rates,
                   !.updated_data =
                       [bank_last_updated |-> other_run.bank_last_updated,
                        rates |-> IF changed
                                  THEN updated_rates(existing_rates, stamped)
                                  ELSE existing_rates]]
    /\ UNCHANGED <<file, pc, bank_last_updated, new_rates, existing_data, now_iso,
                   rates_changed, changed_rates, updated_data, error, calls, latest_rates,
                   other_file, output_file, report, notification, fetch>>

\* Mutant: the save reads the file again and appends to what it holds now.
OtherSaveRatesMerging ==
    /\ other_run.pc = "save_rates"
    /\ file' = JsonFile([bank_last_updated |-> other_run.updated_data.bank_last_updated,
                         rates |-> (IF file.state = "json" THEN file.data.rates ELSE <<>>)
                                       \o other_run.changed_rates])
    /\ other_run' = [other_run EXCEPT !.pc = "saved"]
    /\ UNCHANGED <<clock, pc, bank_last_updated, new_rates, existing_data, now_iso,
                   rates_changed, changed_rates, updated_data, error, calls, latest_rates,
                   other_file, output_file, report, notification, fetch>>

\* The second process: save_rates(data_file, updated_data) rewrites the whole
\* file from what the process holds in memory.
OtherSaveRates ==
    /\ other_run.pc = "save_rates"
    /\ file' = JsonFile(other_run.updated_data)
    /\ other_run' = [other_run EXCEPT !.pc = "saved"]
    /\ UNCHANGED <<clock, pc, bank_last_updated, new_rates, existing_data, now_iso,
                   rates_changed, changed_rates, updated_data, error, calls, latest_rates,
                   other_file, output_file, report, notification, fetch>>

NextRace ==
    \/ LoadRates
    \/ ComputeUpdate
    \/ SaveRates
    \/ OtherLoadRates
    \/ OtherComputeUpdate
    \/ OtherSaveRates

SpecRace == InitRace /\ [][NextRace]_vars

\* ------------------------------------------------------ vocabulary of claims
\* The (product_name, term) keys that occur in a list of rates.
Keys(rates) == {KeyOf(rates[i]) : i \in DOMAIN rates}

\* The positions of key k, and the last of them.
IndexesOf(rates, k) == {i \in DOMAIN rates : KeyOf(rates[i]) = k}
LastIndex(rates, k) ==
    CHOOSE i \in IndexesOf(rates, k) : \A j \in IndexesOf(rates, k) : j <= i

\* The rate of the last-by-position entry of key k.
LatestRate(rates, k) == rates[LastIndex(rates, k)].rate_percentage

\* The two key->rate mappings are unequal: a key added, removed or re-rated.
MappingsDiffer(h, s) ==
    \/ Keys(h) # Keys(s)
    \/ \E k \in Keys(h) \cap Keys(s) : LatestRate(h, k) # LatestRate(s, k)

\* The snapshot a list of (possibly stamped) new rates was parsed as.
Snapshot(rates) ==
    [i \in DOMAIN rates |-> [product_name |-> rates[i].product_name,
                             term |-> rates[i].term,
                             rate_percentage |-> rates[i].rate_percentage]]

IsPrefix(a, b) == Len(a) <= Len(b) /\ SubSeq(b, 1, Len(a)) = a

\* The observation list the file holds (none when missing or unparsable).
Obs(f) == IF f.state = "json" THEN f.data.rates ELSE <<>>

DistinctKeys(s) == \A i, j \in DOMAIN s : i # j => KeyOf(s[i]) # KeyOf(s[j])

\* The reorderings of s, and those that keep entries of one key in their order.
Reorderings(s) == {p \in [DOMAIN s -> DOMAIN s] : \A i, j \in DOMAIN s : i # j => p[i] # p[j]}
KeepsKeyOrder(s, p) ==
    \A i, j \in DOMAIN s : (i < j /\ KeyOf(s[p[i]]) = KeyOf(s[p[j]])) => p[i] < p[j]
Reordered(s, p) == [i \in DOMAIN s |-> s[p[i]]]

H == existing_data.rates
CalledShouldUpdate == "should_update_rates" \in calls
CalledFilterChanged == "filter_changed_rates" \in calls

ShouldUpdateExpected(h, s) == IF Len(h) = 0 THEN Len(s) # 0 ELSE MappingsDiffer(h, s)

\* C2 as stated: should_update is true iff the mappings differ (iff the
\* snapshot is non-empty when the history is empty), and no reordering of the
\* snapshot changes the result.
C2_OrderNeverMatters ==
    CalledShouldUpdate =>
        /\ rates_changed = ShouldUpdateExpected(H, new_rates)
        /\ \A p \in Reorderings(new_rates) :
              should_update_rates(H, Reordered(new_rates, p)) = rates_changed

\* C2, amended: the same, for the reorderings that keep the entries sharing a
\* key in their relative order (all reorderings when the keys are distinct).
C2_ShouldUpdate ==
    CalledShouldUpdate =>
        /\ rates_changed = ShouldUpdateExpected(H, new_rates)
        /\ \A p \in Reorderings(new_rates) :
              KeepsKeyOrder(new_rates, p) =>
                  should_update_rates(H, Reordered(new_rates, p)) = rates_changed

\* should_update has answered false for a two-entry snapshot listing the
\* history's keys in the opposite order.
C2_Witness ==
    /\ CalledShouldUpdate
    /\ ~rates_changed
    /\ Len(H) = 2 /\ Len(new_rates) = 2
    /\ DistinctKeys(new_rates)
    /\ KeyOf(H[1]) = KeyOf(new_rates[2])
    /\ KeyOf(H[2]) = KeyOf(new_rates[1])

\* ---------------------------------------------------------------------- C3
IsChangedEntry(h, e) ==
    KeyOf(e) \notin Keys(h) \/ e.rate_percentage # LatestRate(h, KeyOf(e))

\* C3: filter_changed returns, in snapshot order, exactly the snapshot entries
\* whose key is absent from the history or whose rate differs from the rate of
\* the key's last-by-position observation.
C3_FilterChanged ==
    CalledFilterChanged =>
        changed_rates = SelectSeq(new_rates, LAMBDA e : IsChangedEntry(H, e))

\* filter_changed has dropped an entry that matches the latest observation of a
\* key whose older observation had another rate, and has kept another entry.
C3_Witness ==
    /\ CalledFilterChanged
    /\ Len(changed_rates) > 0
    /\ Len(changed_rates) < Len(new_rates)
    /\ \E i, j \in DOMAIN H :
          /\ i < j
          /\ KeyOf(H[i]) = KeyOf(H[j])
          /\ H[i].rate_percentage # H[j].rate_percentage
          /\ \E n \in DOMAIN new_rates :
                KeyOf(new_rates[n]) = KeyOf(H[j]) /\ ~IsChangedEntry(H, new_rates[n])

\* ---------------------------------------------------------------------- C4
\* C4 as stated: when the snapshot's mapping equals the history's latest-per-key
\* mapping, should_update is false and filter_changed is empty.
C4_EqualMappingsNoChange ==
    (CalledShouldUpdate /\ CalledFilterChanged /\ ~MappingsDiffer(H, new_rates)) =>
        (~rates_changed /\ changed_rates = <<>>)

\* Every snapshot entry carries the history's latest rate for its key and every
\* key of the history occurs in the snapshot.
UnchangedEntrywise(h, s) ==
    /\ Keys(s) = Keys(h)
    /\ \A i \in DOMAIN s : s[i].rate_percentage = LatestRate(h, KeyOf(s[i]))

\* C4, amended: when every snapshot entry carries the history's latest rate for
\* its key and the keys are the same, should_update is false and filter_changed
\* is empty; a call leaves history and snapshot as they were, and a result
\* already obtained is not changed by a later call.
C4_Idempotent ==
    [][pc = "unit" =>
          /\ existing_data' = existing_data
          /\ new_rates' = new_rates
          /\ CalledShouldUpdate => rates_changed' = rates_changed
          /\ CalledFilterChanged => changed_rates' = changed_rates
          /\ UnchangedEntrywise(H, new_rates) =>
                /\ ("should_update_rates" \in calls') => ~rates_changed'
                /\ ("filter_changed_rates" \in calls') => changed_rates' = <<>>]_vars

\* Both functions have been called on a non-empty unchanged snapshot.
C4_Witness ==
    /\ CalledShouldUpdate /\ CalledFilterChanged
    /\ UnchangedEntrywise(H, new_rates)
    /\ Len(new_rates) = 2
    /\ ~rates_changed
    /\ changed_rates = <<>>

\* ---------------------------------------------------------------------- C5
\* The snapshot lacks a key of the history and each of its entries matches the
\* history's latest rate for its key.
OnlyRemoval(h, s) ==
    /\ Keys(h) \ Keys(s) # {}
    /\ \A i \in DOMAIN s :
          KeyOf(s[i]) \in Keys(h) /\ s[i].rate_percentage = LatestRate(h, KeyOf(s[i]))

\* C5: on a snapshot that only lacks keys, should_update is true and
\* filter_changed returns the empty list.
C5_RemovalDetectedNotRecorded ==
    (CalledShouldUpdate /\ CalledFilterChanged /\ OnlyRemoval(H, new_rates)) =>
        (rates_changed /\ changed_rates = <<>>)

\* Both functions have been called on a non-empty snapshot that only lacks a key.
C5_Witness ==
    /\ CalledShouldUpdate /\ CalledFilterChanged
    /\ OnlyRemoval(H, new_rates)
    /\ Len(new_rates) > 0
    /\ rates_changed
    /\ changed_rates = <<>>

\* ---------------------------------------------------------------------- C6
FetchParseSteps ==
    {"fetch_html", "extract_api_key", "fetch_rates", "parse_last_updated", "parse_rates"}

\* C6: a step of fetching or parsing leaves the file as it is, its failure
\* raises, and the file changes only in save_rates, which is reached after
\* every fetch and parse step has succeeded.
C6_FailureLeavesFile ==
    [][/\ pc \in FetchParseSteps =>
             /\ file' = file
             /\ pc' = "failed" => error'.type \in {"RequestException", "ValueError"}
       /\ file' # file => (pc = "save_rates" /\ error = NoError /\ Len(new_rates) > 0)]_vars

\* A run has failed while fetching or parsing, over a history saved earlier.
C6_Witness ==
    /\ pc = "failed"
    /\ error.type \in {"RequestException", "ValueError"}
    /\ file.state = "json"
    /\ Len(Obs(file)) > 0

\* ---------------------------------------------------------------------- C7
\* C7: a run never gets past loading an unparsable file, and the error it
\* raises there names the path of the file, which is left as it was.
C7_CorruptStoreNamesPath ==
    /\ file.state = "truncated" => pc \notin {"compute", "save_rates", "saved", "done"}
    /\ (pc = "failed" /\ error.type = "JSONDecodeError") =>
          /\ file.state = "truncated"
          /\ \E i \in DOMAIN error.msg : error.msg[i] = DataFile

\* ---------------------------------------------------------------------- C8
\* C8: load_rates on a missing file returns exactly
\* {bank_last_updated: None, rates: []}.
C8_MissingFileIsEmptyHistory ==
    (pc = "compute" /\ file.state = "absent") =>
        existing_data = [bank_last_updated |-> None, rates |-> <<>>]

\* ---------------------------------------------------------------------- C9
\* The observations of key k were inserted in chronological order with
\* different timestamps.
Chronological(rates, k) ==
    \A i, j \in IndexesOf(rates, k) :
        i < j => FromIso(rates[i].scraped_at) < FromIso(rates[j].scraped_at)

\* C9: for a key with two or more observations inserted in chronological order,
\* the reduced state is the key's last observation by position.
C9_LatestByPosition ==
    (latest_rates.called /\ ~latest_rates.raises) =>
        \A n \in DOMAIN latest_rates.value :
            LET e == latest_rates.value[n]
                rs == latest_rates.rates
                k == KeyOf(e)
            IN  (Cardinality(IndexesOf(rs, k)) >= 2 /\ Chronological(rs, k)) =>
                    /\ e.scraped_at = rs[LastIndex(rs, k)].scraped_at
                    /\ e.rate_percentage = rs[LastIndex(rs, k)].rate_percentage

\* --------------------------------------------------------------------- C10
\* The position of the observation of key k that precedes its last one.
PrevIndex(rates, k) ==
    CHOOSE i \in IndexesOf(rates, k) \ {LastIndex(rates, k)} :
        \A j \in IndexesOf(rates, k) \ {LastIndex(rates, k)} : j <= i

\* C10: rate_change is the rate of the key's latest observation minus the rate
\* of the observation immediately before it, rounded to two decimals, and 0.00
\* for a key with one observation.
C10_RateChangeLastTwo ==
    (latest_rates.called /\ ~latest_rates.raises) =>
        \A n \in DOMAIN latest_rates.value :
            LET e == latest_rates.value[n]
                rs == latest_rates.rates
                k == KeyOf(e)
            IN  e.rate_change =
                    IF Cardinality(IndexesOf(rs, k)) = 1 THEN 0
                    ELSE Round2(rs[LastIndex(rs, k)].rate_percentage
                                - rs[PrevIndex(rs, k)].rate_percentage)

\* --------------------------------------------------------------------- C11
\* The reducer returned a list for the history the file holds.
Reduced == latest_rates.called /\ ~latest_rates.raises

\* C11: the reducer emits exactly one enriched state for each distinct
\* (product_name, term) key of the history's observations, none missing and
\* none twice, and the empty list for a history with no observations.
C11_OneStatePerKey ==
    Reduced =>
        LET states == latest_rates.value
        IN  /\ Keys(states) = Keys(Obs(file))
            /\ DistinctKeys(states)
            /\ Len(Obs(file)) = 0 => states = <<>>

\* Two observations of one key were reduced to a single state.
C11_Witness ==
    /\ Reduced
    /\ Len(Obs(file)) = 2
    /\ Cardinality(Keys(Obs(file))) = 1
    /\ Len(latest_rates.value) = 1

\* --------------------------------------------------------------------- C12
\* The whole days elapsed at instant now since timestamp s was taken.
WholeDays(now, s) ==
    CHOOSE d \in 0..(now \div Day) :
        d * Day <= now - FromIso(s) /\ now - FromIso(s) < (d + 1) * Day

\* The last observation of key k by position, the latest when the history was
\* written in chronological order.
LatestObs(rates, k) == rates[LastIndex(rates, k)]

\* C12: a reduced state is flagged is_recent_change iff its rate_change is
\* non-zero and the latest observation of its key is at most 14 whole days old.
C12_RecentChange ==
    Reduced =>
        \A i \in DOMAIN latest_rates.value :
            LET state == latest_rates.value[i]
                latest == LatestObs(Obs(file), KeyOf(state))
            IN  state.is_recent_change
                    = (state.rate_change # 0 /\ WholeDays(clock, latest.scraped_at) <= 14)

\* --------------------------------------------------------------------- C13
\* The timestamp of the earliest observation of key k.
EarliestStamp(rates, k) ==
    CHOOSE s \in {rates[i].scraped_at : i \in IndexesOf(rates, k)} :
        \A j \in IndexesOf(rates, k) : FromIso(s) <= FromIso(rates[j].scraped_at)

\* C13: a reduced state is flagged is_new_product iff the earliest observation
\* of its key, whatever later observations the key has, is fewer than 30 whole
\* days old.
C13_NewProduct ==
    Reduced =>
        \A i \in DOMAIN latest_rates.value :
            LET state == latest_rates.value[i]
            IN  state.is_new_product
                    = (WholeDays(clock, EarliestStamp(Obs(file), KeyOf(state))) < 30)

\* A key first seen exactly 30 days ago and seen again 29 days ago is not new.
C13_Witness ==
    /\ Reduced
    /\ \E i \in DOMAIN latest_rates.value :
          LET state == latest_rates.value[i]
          IN  /\ ~state.is_new_product
              /\ clock - FromIso(EarliestStamp(Obs(file), KeyOf(state))) = 30 * Day
              /\ WholeDays(clock, state.scraped_at) = 29

\* --------------------------------------------------------------------- C14
\* C14: in every reduced state days_since_first_appearance and days_since_update
\* are non-negative integers, the whole days elapsed since the key's earliest
\* timestamp and since the state's own timestamp.
C14_DayCounts ==
    Reduced =>
        \A i \in DOMAIN latest_rates.value :
            LET state == latest_rates.value[i]
            IN  /\ state.days_since_first_appearance \in Nat
                /\ state.days_since_update \in Nat
                /\ state.days_since_first_appearance
                       = WholeDays(clock, EarliestStamp(Obs(file), KeyOf(state)))
                /\ state.days_since_update = WholeDays(clock, state.scraped_at)

\* A key first seen 14 days ago and last seen half an hour less than that ago.
C14_Witness ==
    /\ Reduced
    /\ \E i \in DOMAIN latest_rates.value :
          /\ latest_rates.value[i].days_since_first_appearance = 14
          /\ latest_rates.value[i].days_since_update = 13

\* --------------------------------------------------------------------- C15
\* Some observation of the history in f has a scraped_at that is not a valid
\* ISO timestamp.
HasInvalidStamp(f) ==
    f.state = "json" /\ \E i \in DOMAIN f.data.rates : ~IsIsoFormat(f.data.rates[i].scraped_at)

\* C15: when an observation of any source's history has a malformed scraped_at,
\* extract_latest_rates on that history raises, and generate_html raises and
\* leaves the output report as it was.
C15_MalformedFailsLoudly ==
    [][/\ (HasInvalidStamp(file) /\ latest_rates' # latest_rates) => latest_rates'.raises
       /\ ((HasInvalidStamp(file) \/ HasInvalidStamp(other_file)) /\ report' # report)
              => (report'.raises /\ output_file' = output_file)]_vars

\* The generation failed on a malformed timestamp of the second source, the
\* first being sound, and the earlier report is still there.
C15_Witness ==
    /\ report.called
    /\ report.raises
    /\ HasInvalidStamp(other_file)
    /\ ~HasInvalidStamp(file)
    /\ Len(Obs(file)) > 0
    /\ output_file = OldOutput

\* --------------------------------------------------------------------- C16
\* C16: over the reduced states of all sources, the report names the date and
\* the whole-day age of a state with non-zero rate_change whose observation
\* time is the latest, and names none iff no state has a non-zero rate_change.
C16_MostRecentChange ==
    (report.called /\ ~report.raises) =>
        LET states == report.all_rates
            changed == {i \in DOMAIN states : states[i].rate_change # 0}
        IN  IF changed = {}
            THEN report.most_recent_change = <<>>
            ELSE \E i \in changed :
                    /\ \A j \in changed :
                          FromIso(states[j].scraped_at) <= FromIso(states[i].scraped_at)
                    /\ report.most_recent_change
                          = <<DateOf(states[i].scraped_at),
                              WholeDays(report.now, states[i].scraped_at)>>

\* --------------------------------------------------------------------- C17
\* C17: the observations a run appends all carry the one timestamp the run
\* took, they are the run's changed entries and no other entry of the snapshot,
\* and no observation already in the history carries that timestamp.
C17_BatchStamping ==
    [][(pc = "save_rates" /\ pc' = "saved") =>
          LET before == Obs(file)
              after == Obs(file')
              added == SubSeq(after, Len(before) + 1, Len(after))
          IN  /\ \A i \in DOMAIN added : added[i].scraped_at = now_iso
              /\ \A i \in DOMAIN after : after[i].scraped_at = now_iso => i > Len(before)
              /\ added = changed_rates
              /\ now_iso = NowIso(clock)]_vars

\* A run appended two observations to a non-empty history.
C17_Witness ==
    /\ pc = "saved"
    /\ Len(H) > 0
    /\ Len(changed_rates) = 2
    /\ Obs(file) = H \o changed_rates
    /\ changed_rates[1].scraped_at = changed_rates[2].scraped_at

\* --------------------------------------------------------------------- C18
\* C18: every completed save leaves bank_last_updated equal to the value the
\* run parsed from the source, and when should_update was false it leaves the
\* persisted observation list as it was.
C18_UnchangedRun ==
    [][(pc = "save_rates" /\ pc' = "saved") =>
          /\ file'.data.bank_last_updated = bank_last_updated
          /\ ~rates_changed => (file.state = "json" /\ Obs(file') = Obs(file))]_vars

\* An unchanged run kept the observations and replaced bank_last_updated by a
\* different value.
C18_Witness ==
    /\ pc = "saved"
    /\ ~rates_changed
    /\ Len(H) > 0
    /\ Obs(file) = H
    /\ file.data.bank_last_updated = bank_last_updated
    /\ file.data.bank_last_updated # existing_data.bank_last_updated

\* --------------------------------------------------------------------- C19
\* C19: whatever happens to a save, the file afterwards holds the complete
\* previous history or the complete new one, never a truncated or unparsable
\* document.
C19_AtomicSave ==
    [][pc = "save_rates" => (file' = file \/ file' = JsonFile(updated_data))]_vars

\* --------------------------------------------------------------------- C20
\* C20: notify_rate_changes always returns: whatever the request does, the run
\* that called it ends as a successful run, with no exception recorded and the
\* persisted history as the save left it.
C20_NotifyBestEffort ==
    [][pc = "notify" =>
          (pc' = "done" /\ error' = NoError /\ file' = file
           /\ file' = JsonFile(updated_data))]_vars

\* A run whose notification could not be sent has ended successfully.
C20_Witness ==
    /\ pc = "done"
    /\ rates_changed
    /\ notification.called
    /\ notification.outcome = "failed"
    /\ error = NoError
    /\ file = JsonFile(updated_data)

\* --------------------------------------------------------------------- C21
\* The attempts of the call so far that failed.
FailedGets == {i \in DOMAIN fetch.gets : fetch.gets[i] # "ok"}

\* C21: fetch_with_retry makes at most max_retries attempts; every attempt but
\* the last made has failed; it has slept backoff * 2^i after the i-th failed
\* attempt (i from 0) except after attempt max_retries - 1; it returns the
\* response of the first successful attempt and stops; it raises, with the
\* exception of the last attempt, exactly when max_retries attempts failed.
C21_FetchWithRetry ==
    fetch.status # "none" =>
        /\ Len(fetch.gets) <= fetch.max_retries
        /\ \A i \in 1..(Len(fetch.gets) - 1) : i \in FailedGets
        /\ Len(fetch.sleeps) =
               IF Cardinality(FailedGets) = fetch.max_retries
               THEN fetch.max_retries - 1 ELSE Cardinality(FailedGets)
        /\ \A i \in DOMAIN fetch.sleeps : fetch.sleeps[i] = fetch.backoff * Pow2(i - 1)
        /\ fetch.status = "returned" =>
               /\ fetch.gets[Len(fetch.gets)] = "ok"
               /\ fetch.result = <<"response", Len(fetch.gets) - 1>>
        /\ fetch.status = "raised" =>
               /\ Cardinality(FailedGets) = fetch.max_retries
               /\ fetch.result = <<fetch.gets[fetch.max_retries], fetch.max_retries - 1>>
        /\ fetch.status = "running" => Len(fetch.gets) = Cardinality(FailedGets)
        /\ (fetch.status = "running" /\ Len(fetch.gets) = fetch.max_retries)
               => ENABLED FetchRaise

\* A call with max_retries = 3 raised after three failures and two sleeps.
C21_Witness ==
    /\ fetch.status = "raised"
    /\ fetch.max_retries = 3
    /\ Len(fetch.gets) = 3
    /\ fetch.sleeps = <<fetch.backoff, 2 * fetch.backoff>>
    /\ fetch.gets[2] # fetch.gets[3]

\* --------------------------------------------------------------------- C22
\* The sources of the data directory and the sections of the written report.
Sources == {[bank_name |-> "ANZ", f |-> other_file], [bank_name |-> "BNZ", f |-> file]}
Sections == output_file.bank_data
Generated == report.called /\ ~report.raises

\* C22: the report has a section for a source iff the source has a reduced
\* state; a section holds the source's reduced states in ascending order of
\* (product_name, term); the sections are in ascending order of source name.
C22_ReportOrdering ==
    Generated =>
        /\ \A src \in Sources :
              (\E i \in DOMAIN Sections : Sections[i].bank_name = src.bank_name)
                  <=> Keys(Obs(src.f)) # {}
        /\ \A i \in DOMAIN Sections : \A src \in Sources :
              Sections[i].bank_name = src.bank_name =>
                  LET rates == Sections[i].rates
                      states == extract_latest_rates(src.f, report.now).value
                  IN  /\ {rates[j] : j \in DOMAIN rates} = {states[j] : j \in DOMAIN states}
                      /\ Len(rates) = Len(states)
                      /\ \A j, k \in DOMAIN rates : j < k => ProductTermLess(rates[j], rates[k])
        /\ \A i, j \in DOMAIN Sections :
              i < j => StrRank(Sections[i].bank_name) < StrRank(Sections[j].bank_name)

\* A report with both sources, the second holding two states whose keys were
\* first recorded in descending order.
C22_Witness ==
    /\ Generated
    /\ Len(Sections) = 2
    /\ Len(Sections[2].rates) = 2
    /\ Len(Obs(file)) = 2
    /\ ProductTermLess(Obs(file)[2], Obs(file)[1])

\* --------------------------------------------------------------------- C23
\* The document has no rate entry with label, term and interest all present and
\* non-empty.
NoCompleteEntry(feed) == \A i \in DOMAIN feed : ~IsComplete(feed[i])

\* The positions of a run at which it holds a parsed snapshot.
AfterParse == {"load_rates", "compute", "save_rates", "saved", "notify", "done"}

\* C23: parse_rates raises ValueError on every document without a complete
\* rate entry, a run gets past parsing only with a non-empty snapshot, and so
\* should_update and filter_changed are never called with an empty one.
C23_EmptyParseIsError ==
    /\ \A feed \in Feeds :
          NoCompleteEntry(feed) =>
              /\ parse_rates_result(feed).raises
              /\ parse_rates_result(feed).exc.type = "ValueError"
    /\ [](pc \in AfterParse => Len(new_rates) > 0)
    /\ [][pc = "parse_rates" =>
            /\ pc' \in {"load_rates", "failed"}
            /\ pc' = "load_rates" => Len(new_rates') > 0
            /\ pc' = "failed" => (error'.type = "ValueError" /\ new_rates' = <<>>)]_vars

\* A run failed on a feed that held no rate.
C23_Witness ==
    /\ pc = "failed"
    /\ error = [type |-> "ValueError", msg |-> <<"No rates found in XML feed">>]
    /\ new_rates = <<>>
    /\ rates_changed = FALSE
    /\ existing_data = NoData

\* --------------------------------------------------------------------- C24
\* Line i of the body is the line of changed entry i: "old% -> new%" with the
\* rate of the key's last prior observation, or "(new)" for a key without one.
IsLineOf(line, rate, existing_rates) ==
    /\ line.product_name = rate.product_name
    /\ line.term = rate.term
    /\ line.rate_percentage = rate.rate_percentage
    /\ IF IndexesOf(existing_rates, KeyOf(rate)) = {}
       THEN DOMAIN line = {"product_name", "term", "rate_percentage", "suffix"}
            /\ line.suffix = "% (new)"
       ELSE DOMAIN line = {"product_name", "term", "old_rate", "arrow", "rate_percentage"}
            /\ line.arrow = "% -> "
            /\ line.old_rate = LatestRate(existing_rates, KeyOf(rate))

\* C24: the message has one line per changed entry, in the order given; a line
\* shows the rate of the key's last-by-position prior observation, or "(new)"
\* iff the key has none; the title counts the changed entries, "1 rate changed"
\* or "N rates changed".
C24_NotificationContent ==
    (notification.called /\ notification.topic # None) =>
        /\ Len(notification.body) = Len(changed_rates)
        /\ \A i \in DOMAIN changed_rates :
              IsLineOf(notification.body[i], changed_rates[i], H)
        /\ notification.title.bank_name = "BNZ"
        /\ notification.title.count = Len(changed_rates)
        /\ notification.title.text =
              IF Len(changed_rates) = 1 THEN "rate changed" ELSE "rates changed"

\* A message with a re-rated key whose history holds two rates, and a new key.
C24_Witness ==
    /\ notification.called
    /\ notification.topic # None
    /\ Len(notification.body) = 2
    /\ \E i, j \in DOMAIN notification.body :
          /\ "suffix" \in DOMAIN notification.body[i]
          /\ "old_rate" \in DOMAIN notification.body[j]
          /\ \E a, b \in IndexesOf(H, KeyOf(changed_rates[j])) :
                H[a].rate_percentage # H[b].rate_percentage

\* --------------------------------------------------------------------- C25
\* The keys of the loaded history that the run's snapshot lacks.
Removed == Keys(H) \ Keys(new_rates)

\* C25: a run whose snapshot lacks a key of the history reports rates_changed
\* = true even when it appends nothing, main then calls notify_rate_changes,
\* whose message counts the changed entries (zero when none), and the saved
\* history's latest-per-key mapping still differs from the snapshot's.
C25_RemovalNeverClears ==
    /\ []((pc \in {"save_rates", "saved", "notify", "done"} /\ Removed # {}) =>
            rates_changed)
    /\ []((pc \in {"saved", "notify", "done"} /\ Removed # {}) =>
            /\ Removed \subseteq Keys(Obs(file))
            /\ MappingsDiffer(Obs(file), new_rates))
    /\ [][(pc = "saved" /\ Removed # {}) => pc' = "notify"]_vars
    /\ []((pc = "done" /\ Removed # {}) =>
            /\ notification.called
            /\ notification.topic # None =>
                  /\ notification.title.count = Len(changed_rates)
                  /\ Len(notification.body) = Len(changed_rates))

\* A run that appended nothing has sent "BNZ: 0 rates changed" for a removed key.
C25_Witness ==
    /\ pc = "done"
    /\ Removed # {}
    /\ changed_rates = <<>>
    /\ Obs(file) = H
    /\ notification.outcome = "sent"
    /\ notification.title = [bank_name |-> "BNZ", count |-> 0, text |-> "rates changed"]
    /\ notification.body = <<>>

\* --------------------------------------------------------------------- C26
\* What a run that loads history h and parses snapshot s appends, before
\* stamping.
AppendedBy(h, s) == IF should_update_rates(h, s) THEN filter_changed_rates(h, s) ELSE <<>>

\* C26 as stated: after a run with snapshot S, the saved history's latest rate
\* of every key of S is S's rate for that key, and a run that follows with the
\* same S appends no observation.
C26_RunFixpoint ==
    pc = "saved" =>
        /\ \A k \in Keys(new_rates) :
              /\ k \in Keys(Obs(file))
              /\ LatestRate(Obs(file), k) = LatestRate(new_rates, k)
        /\ AppendedBy(Obs(file), Snapshot(new_rates)) = <<>>

\* --------------------------------------------------------------------- C27
\* No key has two observations, consecutive among that key's observations,
\* with the same rate.
NoRepeat(rates) ==
    \A i, j \in DOMAIN rates :
        (/\ i < j
         /\ KeyOf(rates[i]) = KeyOf(rates[j])
         /\ \A m \in DOMAIN rates : (i < m /\ m < j) => KeyOf(rates[m]) # KeyOf(rates[i]))
        => rates[i].rate_percentage # rates[j].rate_percentage

\* C27: a successful run whose snapshot has pairwise distinct keys keeps a
\* history free of repeated rates free of them (so every history grown from
\* the empty one by such runs is), and a run on an empty history appends every
\* snapshot entry in snapshot order.
C27_OnlyGenuineChanges ==
    [][(pc = "save_rates" /\ pc' = "saved" /\ DistinctKeys(new_rates)) =>
          /\ NoRepeat(Obs(file)) => NoRepeat(Obs(file'))
          /\ Obs(file) = <<>> =>
                Snapshot(Obs(file')) = Snapshot(new_rates)]_vars

\* A second run from the empty history has recorded a new rate for one key and
\* nothing for a key whose rate stayed.
C27_Witness ==
    /\ pc = "saved"
    /\ DistinctKeys(new_rates)
    /\ Len(new_rates) = 2
    /\ Len(H) = 2
    /\ DistinctKeys(H)
    /\ H[1].scraped_at = H[2].scraped_at
    /\ Len(changed_rates) = 1
    /\ Obs(file) = H \o changed_rates
    /\ NoRepeat(Obs(file))
    /\ Keys(changed_rates) \subseteq Keys(H)

\* --------------------------------------------------------------------- C28
\* C28 as stated: the keys of the persisted history only grow, and the
\* reducer emits for every key of the history a state with the rate of the
\* key's last recorded observation.
C28_KeysNeverDisappear ==
    /\ [][Keys(Obs(file)) \subseteq Keys(Obs(file'))]_vars
    /\ [](Reduced =>
            \A k \in Keys(Obs(file)) :
                \E i \in DOMAIN latest_rates.value :
                    /\ KeyOf(latest_rates.value[i]) = k
                    /\ latest_rates.value[i].rate_percentage = LatestRate(Obs(file), k))

\* --------------------------------------------------------------------- C29
\* The values of a sequence.
Range(rates) == {rates[i] : i \in DOMAIN rates}

\* A save of a run that loaded `loaded` and appends `appended`, at which the
\* other run, being at position other_pc, had loaded other_loaded and appended
\* other_appended: a whole-file overwrite. When the other run has saved and
\* both had loaded the same history, what the other run appended is gone and
\* the persisted history before the save is no prefix of the one after it;
\* when the other run had not loaded yet, or had saved before this run
\* loaded, the history before is a prefix of the history after.
RacingSave(loaded, appended, other_pc, other_loaded, other_saved, other_appended) ==
    /\ Obs(file') = loaded.rates \o appended
    /\ (other_pc = "saved" /\ other_loaded = loaded) =>
          /\ \A i \in DOMAIN other_appended : other_appended[i] \notin Range(Obs(file'))
          /\ other_appended # <<>> => ~IsPrefix(Obs(file), Obs(file'))
    /\ (other_pc = "load_rates" \/ (other_pc = "saved" /\ loaded = other_saved)) =>
          IsPrefix(Obs(file), Obs(file'))

\* C29: load and save are a whole-file read and a whole-file overwrite without
\* locking: when both runs load before either saves, the later save overwrites
\* the earlier one, the file lacks what the earlier saver appended and the
\* prefix relation between successive persisted histories is broken; when the
\* runs do not overlap, every persisted history is a prefix of the next.
C29_ConcurrentRunsRace ==
    [][/\ (pc = "save_rates" /\ pc' = "saved") =>
             RacingSave(existing_data, changed_rates, other_run.pc,
                        other_run.existing_data, other_run.updated_data,
                        other_run.changed_rates)
       /\ (other_run.pc = "save_rates" /\ other_run'.pc = "saved") =>
             RacingSave(other_run.existing_data, other_run.changed_rates, pc,
                        existing_data, updated_data, changed_rates)]_vars

\* Both runs loaded the same non-empty history, the main run saved two new
\* observations, and the save of the second run has replaced them by its own.
C29_Witness ==
    /\ pc = "saved"
    /\ other_run.pc = "saved"
    /\ other_run.existing_data = existing_data
    /\ Len(H) > 0
    /\ Len(changed_rates) = 2
    /\ Len(other_run.changed_rates) = 1
    /\ file = JsonFile(other_run.updated_data)
    /\ Obs(file) = H \o other_run.changed_rates
    /\ \A i \in DOMAIN changed_rates : changed_rates[i] \notin Range(Obs(file))

\* --------------------------------------------------------------------- C30
\* send_notification has been called in the run: a request was attempted.
Attempted(n) == n.outcome \in {"sent", "failed"}

\* C30: a notification is attempted only by a run that has saved its updated
\* history, found rates_changed true and has a topic configured, and only
\* once in the run; a run that failed holds no attempted notification, and
\* neither does a run that has not yet returned from the scrape.
C30_NotificationOrdering ==
    /\ [][(Attempted(notification') /\ notification' # notification) =>
            /\ pc = "notify"
            /\ file = JsonFile(updated_data)
            /\ rates_changed
            /\ notification'.topic \in NtfyTopics \ {""}
            /\ notification = NoNotification
            /\ pc' = "done"]_vars
    /\ [](pc \notin {"done", "unit", "report", "fetch"} => notification = NoNotification)
    /\ [](pc = "done" => (notification.called <=> rates_changed))

\* A run that changed the history has sent its one notification after the save.
C30_Witness ==
    /\ pc = "done"
    /\ rates_changed
    /\ notification.outcome = "sent"
    /\ notification.topic = "kiwi-rates"
    /\ file = JsonFile(updated_data)
    /\ Len(changed_rates) > 0
    /\ error = NoError

TypeOK ==
    /\ bank_last_updated \in BankDates \cup {None}
    /\ file.state \in {"absent", "json", "truncated"}
    /\ clock \in 0..MaxClock \cup ReduceNows
    /\ pc \in {"idle", "fetch_html", "extract_api_key", "fetch_rates", "parse_last_updated",
               "parse_rates", "load_rates", "compute", "save_rates", "saved", "notify", "done",
               "failed", "unit", "report", "fetch", "race"}
====
